---- MODULE Spec2Model ----
(***************************************************************************)
(* A model of the rc_bump crate: the Bump arena and its in-block Metadata, *)
(* the owning handle BumpMember, the shared handle RcBumpMember with its   *)
(* two layouts (bare T / BumpRcEntry<T>), Paving and MixedPaving.          *)
(*                                                                         *)
(* Addresses are byte addresses.  Every block lives in an address space of *)
(* its own (blocks of different arenas never alias); the data region of a  *)
(* block is modelled byte by byte, so that reads and writes through        *)
(* handles go through the addresses the allocator computed.                *)
(***************************************************************************)
EXTENDS Integers, Sequences, FiniteSets, TLC

\* ------------------------------------------------------------------ bounds
MaxSlots == 2        \* accepted allocations (arena- or heap-backed) in a run
MaxArenas == 2       \* blocks obtained from the memory provider in a run
MaxCopies == 2       \* live external copies of one shared handle
MaxNeighbors == 1    \* handles stored inside one value

\* ------------------------------------------------- platform / program facts
MetaAlign == 8       \* align_of::<Metadata>()   (u64, NonNull, Layout)
CountSize == 8       \* size_of::<usize>(), the `count` field of BumpRcEntry

\* The instantiations of the generic parameter T that the model exercises:
\* size_of::<T>(), align_of::<T>(), needs_drop::<T>().
U64 == [name |-> "u64", size |-> 8, align |-> 8, nd |-> FALSE]
Node == [name |-> "node", size |-> 8, align |-> 8, nd |-> TRUE]
D1 == [name |-> "d1", size |-> 1, align |-> 1, nd |-> TRUE]
Z32 == [name |-> "z32", size |-> 0, align |-> 32, nd |-> FALSE]
Types == {U64, Node, D1, Z32}

\* The calls the modelled program makes: try_alloc::<T> (rc = FALSE) and
\* try_alloc_rc::<T> (rc = TRUE) for these T.
Menu ==
  { [ty |-> Node, rc |-> FALSE], [ty |-> Node, rc |-> TRUE],
    [ty |-> U64, rc |-> TRUE],
    [ty |-> D1, rc |-> FALSE], [ty |-> D1, rc |-> TRUE],
    [ty |-> Z32, rc |-> FALSE] }
TypesOf(rc) == {m.ty : m \in {x \in Menu : x.rc = rc}}

Capacities == {0, 8, 16}          \* `capacity` arguments of ::new
Aligns == {8}                     \* `align` arguments of ::new
Kinds == {"Bump", "Paving", "MixedPaving"}
WriteTag == 9                     \* the payload stored through DerefMut

\* Addresses the memory provider may return for a block of alignment a:
\* one that happens to be 32-aligned and one that is not.
BlockAddrs(a) == {x \in {32, 40} : x % a = 0}

VARIABLES
  kind,       \* which structure the program constructed
  capacity,   \* Paving.capacity (the argument of Bump::new for a plain Bump)
  align,      \* Paving.align
  debug,      \* cfg!(debug_assertions) of the build
  arenas,     \* every block ever allocated: Metadata, data bytes, first_free
  current,    \* index in arenas of the live Bump structure, 0 when none
  slots,      \* every handle target ever issued (arena slot or heap box)
  status,     \* "running", "panic" (a panic! / failed debug_assert!), or
              \* "ub" (a freed block was accessed)
  last        \* outcome of the last allocation call

vars == <<kind, capacity, align, debug, arenas, current, slots, status, last>>

\* ------------------------------------------------------------------ values
NoNb == <<>>
Unit == [tag |-> 0, nb |-> NoNb]                 \* the value of a zero-sized T
NoValue == [tag |-> -1, nb |-> NoNb]             \* "no value was handed back"

Uninit == [k |-> "uninit", n |-> 0, nb |-> NoNb]
ValueCell(v) == [k |-> "value", n |-> v.tag, nb |-> v.nb]
CountCell(c) == [k |-> "count", n |-> c, nb |-> NoNb]
CellValue(c) == [tag |-> c.n, nb |-> c.nb]

RoundUp(x, a) == ((x + a - 1) \div a) * a

\* <*mut u8>::align_offset(align): bytes to add to reach the next multiple.
AlignOffset(p, a) == RoundUp(p, a) - p

\* Layout of BumpRcEntry<T> { count: usize, value: T }.
EntryAlign(ty) == IF ty.align > CountSize THEN ty.align ELSE CountSize
ValueOffset(ty) == RoundUp(CountSize, ty.align)
EntrySize(ty) == RoundUp(ValueOffset(ty) + ty.size, EntryAlign(ty))

\* The object try_alloc_inner is asked to store: a bare T, or an entry.
BareObj(ty, v) ==
  [entry |-> FALSE, size |-> ty.size, align |-> ty.align, voff |-> 0,
   vsize |-> ty.size, count |-> 0, value |-> v]
EntryObj(ty, c, v) ==
  [entry |-> TRUE, size |-> EntrySize(ty), align |-> EntryAlign(ty),
   voff |-> ValueOffset(ty), vsize |-> ty.size, count |-> c, value |-> v]

\* ptr.write(obj): the bytes of obj stored at addr.
WriteObj(mem, addr, obj) ==
  [a \in DOMAIN mem |->
     IF a >= addr + obj.voff /\ a < addr + obj.voff + obj.vsize
       THEN ValueCell(obj.value)
     ELSE IF obj.entry /\ a >= addr /\ a < addr + CountSize
       THEN CountCell(obj.count)
     ELSE mem[a]]

\* ---------------------------------------------------------------- Metadata
Freed(m) == m.deallocs > 0

\* decrement_and_drop that deallocates as soon as one claim is left.
DecrementAndDropEager(S, a) ==
  IF S.ub \/ Freed(S.arenas[a]) THEN [S EXCEPT !.ub = TRUE]
  ELSE IF S.arenas[a].count - 1 <= 1
    THEN [S EXCEPT !.arenas[a].count = @ - 1,
                   !.arenas[a].deallocs = @ + 1,
                   !.arenas[a].mem = [x \in DOMAIN @ |-> Uninit]]
    ELSE [S EXCEPT !.arenas[a].count = @ - 1]

\* decrement_and_drop that never gives the block back.
DecrementAndDropLeaking(S, a) ==
  IF S.ub \/ Freed(S.arenas[a]) THEN [S EXCEPT !.ub = TRUE]
  ELSE [S EXCEPT !.arenas[a].count = @ - 1]

\* Metadata::decrement_and_drop.  The Metadata lives inside the block, so a
\* call on a block that was already deallocated is a use after free.
DecrementAndDrop(S, a) ==
  IF S.ub \/ Freed(S.arenas[a]) THEN [S EXCEPT !.ub = TRUE]
  ELSE IF S.arenas[a].count - 1 = 0
    THEN \* dealloc(beg, layout): the bytes go back to the provider
         [S EXCEPT !.arenas[a].count = @ - 1,
                   !.arenas[a].deallocs = @ + 1,
                   !.arenas[a].mem = [x \in DOMAIN @ |-> Uninit]]
    ELSE [S EXCEPT !.arenas[a].count = @ - 1]

\* -------------------------------------------------------------------- Bump
\* inner_bump_layout: Layout::from_size_align(capacity, align)
\*                      .extend(Layout::new::<Metadata>())
LayoutAlign(al) == IF al > MetaAlign THEN al ELSE MetaAlign
MetadataOffset(cap) == RoundUp(cap, MetaAlign)

\* Bump::new(capacity, align) with the block the provider returned at beg.
BumpNew(cap, al, beg) ==
  [beg |-> beg,
   meta |-> beg + MetadataOffset(cap),
   first_free |-> beg,
   count |-> 1,
   deallocs |-> 0,
   mem |-> [a \in beg .. (beg + MetadataOffset(cap) - 1) |-> Uninit]]

\* can_fit with `<` for `<=`: a value that fits exactly is turned away.
CanFitStrict(b, size, al) ==
  IF b.first_free + AlignOffset(b.first_free, al) + size < b.meta
    THEN [some |-> TRUE,
          beg |-> b.first_free + AlignOffset(b.first_free, al),
          end |-> b.first_free + AlignOffset(b.first_free, al) + size]
    ELSE [some |-> FALSE, beg |-> 0, end |-> 0]

\* can_fit bounded by the end of the whole block, Metadata included.
CanFitPastMetadata(b, size, al) ==
  IF b.first_free + AlignOffset(b.first_free, al) + size <= b.meta + MetaAlign
    THEN [some |-> TRUE,
          beg |-> b.first_free + AlignOffset(b.first_free, al),
          end |-> b.first_free + AlignOffset(b.first_free, al) + size]
    ELSE [some |-> FALSE, beg |-> 0, end |-> 0]

\* Bump::can_fit::<T>():
\* tentative_start = first_free + align_offset, tentative_end = that + size.
CanFit(b, size, al) ==
  IF b.first_free + AlignOffset(b.first_free, al) + size <= b.meta
    THEN [some |-> TRUE,
          beg |-> b.first_free + AlignOffset(b.first_free, al),
          end |-> b.first_free + AlignOffset(b.first_free, al) + size]
    ELSE [some |-> FALSE, beg |-> 0, end |-> 0]

\* The Some arm without the `count += 1`.
StoreAtUncounted(S, a, obj, fit) ==
  [ok |-> TRUE,
   S |-> [S EXCEPT !.arenas[a].mem = WriteObj(@, fit.beg, obj),
                   !.arenas[a].first_free = fit.end],
   metadata |-> a, data |-> fit.beg, err |-> obj]

\* The Some arm without the store to first_free.
StoreAtNoAdvance(S, a, obj, fit) ==
  [ok |-> TRUE,
   S |-> [S EXCEPT !.arenas[a].mem = WriteObj(@, fit.beg, obj),
                   !.arenas[a].count = @ + 1],
   metadata |-> a, data |-> fit.beg, err |-> obj]

\* The Some((start, end)) arm of try_alloc_inner.
StoreAt(S, a, obj, fit) ==
  [ok |-> TRUE,
   S |-> [S EXCEPT !.arenas[a].mem = WriteObj(@, fit.beg, obj),
                   !.arenas[a].count = @ + 1,
                   !.arenas[a].first_free = fit.end],
   metadata |-> a, data |-> fit.beg, err |-> obj]

\* The match on can_fit in try_alloc_inner.
MatchFit(S, a, obj, fit) ==
  IF fit.some THEN StoreAt(S, a, obj, fit)
  ELSE [ok |-> FALSE, S |-> S, metadata |-> 0, data |-> 0, err |-> obj]

\* Bump::try_alloc_inner(value): Ok(RawBumpMember{metadata, data}) / Err(value)
TryAllocInner(S, a, obj) ==
  MatchFit(S, a, obj, CanFit(S.arenas[a], obj.size, obj.align))

\* Bump::try_alloc(value): Err carries the value itself.
BumpTryAlloc(S, a, ty, v) ==
  [TryAllocInner(S, a, BareObj(ty, v)) EXCEPT !.err = @.value]

\* try_alloc_rc whose entry starts with a private count of 0.
BumpTryAllocRcZeroCount(S, a, ty, v) ==
  IF ty.nd
    THEN [TryAllocInner(S, a, EntryObj(ty, 0, v)) EXCEPT !.err = @.value]
    ELSE [TryAllocInner(S, a, BareObj(ty, v)) EXCEPT !.err = @.value]

\* Bump::try_alloc_rc(value): `.map_err(|srce| srce.value)` unwraps the entry.
BumpTryAllocRc(S, a, ty, v) ==
  IF ty.nd
    THEN [TryAllocInner(S, a, EntryObj(ty, 1, v)) EXCEPT !.err = @.value]
    ELSE [TryAllocInner(S, a, BareObj(ty, v)) EXCEPT !.err = @.value]

\* ----------------------------------------------------------------- handles
\* A slot record is the handle's fields (metadata, data / rc_data, the type
\* it was instantiated with) plus bookkeeping about the program: `ext` is
\* the number of copies of the handle the program holds outside any stored
\* value, `dtor` counts the runs of T's destructor on the slot's value,
\* `val` is the value the program last stored through a handle to the slot.
\* Heap-backed handles (Box<T>, Rc<T>) keep value and strong count in the
\* record itself.
ArenaSlot(ty, own, metadata, data, v) ==
  [ty |-> ty, own |-> own, heap |-> FALSE, metadata |-> metadata,
   data |-> data, strong |-> 0, hv |-> NoValue, dtor |-> 0, ext |-> 1,
   val |-> v]
HeapSlot(ty, own, v) ==
  [ty |-> ty, own |-> own, heap |-> TRUE, metadata |-> 0,
   data |-> 0, strong |-> 1, hv |-> v, dtor |-> 0, ext |-> 1, val |-> v]

\* NeedsDrop::from_rc_data: the layout behind rc_data is chosen by the type.
Wrapped(sl) == ~sl.own /\ ~sl.heap /\ sl.ty.nd

\* The address of the entry itself, whatever the layout.
ValueAddrOfEntry(sl) == sl.data

\* Address of the T behind a handle.
ValueAddr(sl) == IF Wrapped(sl) THEN sl.data + ValueOffset(sl.ty) ELSE sl.data

\* Reading size_of::<T>() bytes at addr as a T.
ReadValue(mem, addr, ty) == IF ty.size = 0 THEN Unit ELSE CellValue(mem[addr])

\* rc_entry.count
ReadCount(mem, addr) == mem[addr].n

\* Deref for BumpMember / RcBumpMember / the MixedPaving members.
Deref(S, s) ==
  LET sl == S.slots[s] IN
  IF sl.heap THEN sl.hv
  ELSE ReadValue(S.arenas[sl.metadata].mem, ValueAddr(sl), sl.ty)

\* Writing c into the `count` field of the entry at addr.
SetCount(mem, addr, c) ==
  [x \in DOMAIN mem |->
     IF x >= addr /\ x < addr + CountSize THEN CountCell(c) ELSE mem[x]]

RECURSIVE DropShared(_, _), DropNb(_, _)

\* drop_in_place::<T>(value): T's destructor, then the handles T owns, in
\* order.  A no-op when !needs_drop::<T>().
DropInPlace(S, s, v) ==
  IF S.ub \/ ~S.slots[s].ty.nd THEN S
  ELSE DropNb([S EXCEPT !.slots[s].dtor = @ + 1], v.nb)

DropNb(S, nb) ==
  IF nb = <<>> THEN S ELSE DropNb(DropShared(S, Head(nb)), Tail(nb))

\* The same arm giving up a claim on the block at every drop of a copy.
AfterCountDownAlways(S1, s, sl) ==
  IF ReadCount(S1.arenas[sl.metadata].mem, sl.data) = 0
    THEN DecrementAndDrop(
           DropInPlace(S1, s,
             ReadValue(S1.arenas[sl.metadata].mem, ValueAddr(sl), sl.ty)),
           sl.metadata)
    ELSE DecrementAndDrop(S1, sl.metadata)

\* The same arm calling decrement_and_drop before drop_in_place.
AfterCountDownReleaseFirst(S1, s, sl) ==
  IF ReadCount(S1.arenas[sl.metadata].mem, sl.data) = 0
    THEN IF Freed(DecrementAndDrop(S1, sl.metadata).arenas[sl.metadata])
           THEN [DecrementAndDrop(S1, sl.metadata) EXCEPT !.ub = TRUE]
           ELSE DropInPlace(
                  DecrementAndDrop(S1, sl.metadata), s,
                  ReadValue(S1.arenas[sl.metadata].mem, ValueAddr(sl), sl.ty))
    ELSE S1

\* The NeedsDrop::Yes arm after `count -= 1`: at zero, drop_in_place of the
\* value and then decrement_and_drop.
AfterCountDown(S1, s, sl) ==
  IF ReadCount(S1.arenas[sl.metadata].mem, sl.data) = 0
    THEN DecrementAndDrop(
           DropInPlace(S1, s,
             ReadValue(S1.arenas[sl.metadata].mem, ValueAddr(sl), sl.ty)),
           sl.metadata)
    ELSE S1

\* A drop whose bare arm leaves the count of the block alone.
DropRcBumpMemberBareKept(S, s) ==
  IF S.ub THEN S
  ELSE IF S.slots[s].ty.nd
    THEN IF Freed(S.arenas[S.slots[s].metadata]) THEN [S EXCEPT !.ub = TRUE]
         ELSE AfterCountDown(
                [S EXCEPT !.arenas[S.slots[s].metadata].mem =
                   SetCount(@, S.slots[s].data,
                            ReadCount(@, S.slots[s].data) - 1)],
                s, S.slots[s])
    ELSE S

\* impl Drop for RcBumpMember<T>
DropRcBumpMember(S, s) ==
  IF S.ub THEN S
  ELSE IF S.slots[s].ty.nd
    THEN IF Freed(S.arenas[S.slots[s].metadata]) THEN [S EXCEPT !.ub = TRUE]
         ELSE AfterCountDown(
                [S EXCEPT !.arenas[S.slots[s].metadata].mem =
                   SetCount(@, S.slots[s].data,
                            ReadCount(@, S.slots[s].data) - 1)],
                s, S.slots[s])
    ELSE DecrementAndDrop(S, S.slots[s].metadata)

\* A drop of the owning handle that runs the destructor and keeps its claim.
DropBumpMemberKeeping(S, s) ==
  IF S.ub THEN S
  ELSE DropInPlace(S, s,
         ReadValue(S.arenas[S.slots[s].metadata].mem, S.slots[s].data,
                   S.slots[s].ty))

\* A drop of the owning handle that gives up its claim first and runs the
\* destructor afterwards, on a block that may be gone by then.
DropBumpMemberReleaseFirst(S, s) ==
  IF S.ub THEN S
  ELSE IF Freed(DecrementAndDrop(S, S.slots[s].metadata)
                  .arenas[S.slots[s].metadata])
    THEN [DecrementAndDrop(S, S.slots[s].metadata) EXCEPT
            !.ub = S.slots[s].ty.nd]
  ELSE DropInPlace(DecrementAndDrop(S, S.slots[s].metadata), s,
         ReadValue(S.arenas[S.slots[s].metadata].mem, S.slots[s].data,
                   S.slots[s].ty))

\* A drop of the owning handle that hands the slot back to the Bump when it
\* is the last one allocated.
DropBumpMemberReclaiming(S, s) ==
  IF S.ub THEN S
  ELSE IF S.slots[s].ty.nd /\ Freed(S.arenas[S.slots[s].metadata])
    THEN [S EXCEPT !.ub = TRUE]
  ELSE DecrementAndDrop(
         DropInPlace(
           [S EXCEPT !.arenas[S.slots[s].metadata].first_free =
              IF @ = S.slots[s].data + S.slots[s].ty.size
                THEN S.slots[s].data ELSE @],
           s,
           ReadValue(S.arenas[S.slots[s].metadata].mem, S.slots[s].data,
                     S.slots[s].ty)),
         S.slots[s].metadata)

\* impl Drop for BumpMember<T>
DropBumpMember(S, s) ==
  IF S.ub THEN S
  ELSE IF S.slots[s].ty.nd /\ Freed(S.arenas[S.slots[s].metadata])
    THEN [S EXCEPT !.ub = TRUE]
  ELSE DecrementAndDrop(
         DropInPlace(S, s,
           ReadValue(S.arenas[S.slots[s].metadata].mem, S.slots[s].data,
                     S.slots[s].ty)),
         S.slots[s].metadata)

\* Drop of std::rc::Rc<T> / Box<T> (the heap variants of the mixed members).
DropHeap(S, s) ==
  IF S.ub THEN S
  ELSE IF S.slots[s].strong = 0 THEN [S EXCEPT !.ub = TRUE]
  ELSE IF S.slots[s].strong = 1
    THEN DropInPlace([S EXCEPT !.slots[s].strong = 0], s, S.slots[s].hv)
    ELSE [S EXCEPT !.slots[s].strong = @ - 1]

DropShared(S, s) ==
  IF S.slots[s].heap THEN DropHeap(S, s) ELSE DropRcBumpMember(S, s)

\* Drop of any handle the program holds.
DropMember(S, s) ==
  IF S.slots[s].heap THEN DropHeap(S, s)
  ELSE IF S.slots[s].own THEN DropBumpMember(S, s)
  ELSE DropRcBumpMember(S, s)

\* A clone that copies the handle of a wrapped entry without counting it.
CloneMemberUncounted(S, s) ==
  IF S.slots[s].heap THEN [S EXCEPT !.slots[s].strong = @ + 1]
  ELSE IF Freed(S.arenas[S.slots[s].metadata]) THEN [S EXCEPT !.ub = TRUE]
  ELSE IF S.slots[s].ty.nd THEN S
  ELSE [S EXCEPT !.arenas[S.slots[s].metadata].count = @ + 1]

\* A clone whose bare arm claims the block twice.
CloneMemberBareTwice(S, s) ==
  IF S.slots[s].heap THEN [S EXCEPT !.slots[s].strong = @ + 1]
  ELSE IF Freed(S.arenas[S.slots[s].metadata]) THEN [S EXCEPT !.ub = TRUE]
  ELSE IF S.slots[s].ty.nd
    THEN [S EXCEPT !.arenas[S.slots[s].metadata].mem =
            SetCount(@, S.slots[s].data, ReadCount(@, S.slots[s].data) + 1)]
    ELSE [S EXCEPT !.arenas[S.slots[s].metadata].count = @ + 2]

\* A clone whose wrapped arm counts the copy in the entry and in the block.
CloneMemberBoth(S, s) ==
  IF S.slots[s].heap THEN [S EXCEPT !.slots[s].strong = @ + 1]
  ELSE IF Freed(S.arenas[S.slots[s].metadata]) THEN [S EXCEPT !.ub = TRUE]
  ELSE IF S.slots[s].ty.nd
    THEN [S EXCEPT !.arenas[S.slots[s].metadata].mem =
            SetCount(@, S.slots[s].data, ReadCount(@, S.slots[s].data) + 1),
                   !.arenas[S.slots[s].metadata].count = @ + 1]
    ELSE [S EXCEPT !.arenas[S.slots[s].metadata].count = @ + 1]

\* impl Clone for RcBumpMember<T> (and Rc<T>::clone for the heap variant)
CloneMember(S, s) ==
  IF S.slots[s].heap THEN [S EXCEPT !.slots[s].strong = @ + 1]
  ELSE IF Freed(S.arenas[S.slots[s].metadata]) THEN [S EXCEPT !.ub = TRUE]
  ELSE IF S.slots[s].ty.nd
    THEN [S EXCEPT !.arenas[S.slots[s].metadata].mem =
            SetCount(@, S.slots[s].data, ReadCount(@, S.slots[s].data) + 1)]
    ELSE [S EXCEPT !.arenas[S.slots[s].metadata].count = @ + 1]

\* DerefMut for BumpMember<T> / Box<T>: the payload is overwritten in place.
WriteMember(S, s, t) ==
  IF S.slots[s].heap THEN [S EXCEPT !.slots[s].hv.tag = t]
  ELSE IF Freed(S.arenas[S.slots[s].metadata]) THEN [S EXCEPT !.ub = TRUE]
  ELSE [S EXCEPT !.arenas[S.slots[s].metadata].mem =
          [x \in DOMAIN @ |->
             IF x >= S.slots[s].data /\ x < S.slots[s].data + S.slots[s].ty.size
               THEN [@[x] EXCEPT !.k = "value", !.n = t] ELSE @[x]]]

\* A Drop for Bump that gives the block back whatever the count is.
DropBumpUnconditional(S, a) ==
  [S EXCEPT !.arenas[a].count = @ - 1,
            !.arenas[a].deallocs = @ + 1,
            !.arenas[a].mem = [x \in DOMAIN @ |-> Uninit]]

\* impl Drop for Bump
DropBump(S, a) == DecrementAndDrop(S, a)

\* A delegation that always goes to the first Bump the Paving ever had.
CurrentBumpAllocFirst(S, a, ty, v, rc) ==
  IF rc THEN BumpTryAllocRc(S, 1, ty, v) ELSE BumpTryAlloc(S, 1, ty, v)

\* ------------------------------------------------------------------ Paving
\* The call on the current Bump that Paving::try_alloc (rc = FALSE) or
\* Paving::try_alloc_rc (rc = TRUE) delegates to.
CurrentBumpAlloc(S, a, ty, v, rc) ==
  IF rc THEN BumpTryAllocRc(S, a, ty, v) ELSE BumpTryAlloc(S, a, ty, v)

\* A size check that forgets the factor 2.
TooLargeSingle(ty, cap) == ty.size > cap

\* The size check that opens Paving::try_alloc and Paving::try_alloc_rc.
TooLarge(ty, cap) == ty.size * 2 > cap

\* A replacement that gives the old block back whatever its count is.
ReplaceCurrentFreeing(S, cur, cap, al, beg) ==
  DropBumpUnconditional(
    [S EXCEPT !.arenas = Append(@, BumpNew(cap, al, beg))], cur)

\* A replacement that forgets the old Bump without dropping it.
ReplaceCurrentLeaking(S, cur, cap, al, beg) ==
  [S EXCEPT !.arenas = Append(@, BumpNew(cap, al, beg))]

\* *self.current_bump.get() = Bump::new(self.capacity, self.align):
\* the new Bump is built first, then the assignment drops the old one.
ReplaceCurrent(S, cur, cap, al, beg) ==
  DropBump([S EXCEPT !.arenas = Append(@, BumpNew(cap, al, beg))], cur)

\* A Paving result: the Bump's result r, the Paving's current Bump after
\* the call, and whether the current Bump was replaced on the way.
PavingResult(r, cur, retried) ==
  [ok |-> r.ok, S |-> r.S, metadata |-> r.metadata, data |-> r.data,
   err |-> r.err, cur |-> cur, retried |-> retried]

\* The Err(value) arm: replace the current Bump and try once more.
Retry(S2, ty, v, rc) ==
  PavingResult(CurrentBumpAlloc(S2, Len(S2.arenas), ty, v, rc),
               Len(S2.arenas), TRUE)

\* A match that replaces the current Bump without looking at the first
\* attempt's result.
MatchFirstAlwaysReplace(r1, S, cur, cap, al, ty, rc, beg) ==
  Retry(ReplaceCurrent(S, cur, cap, al, beg), ty, r1.err, rc)

\* The match on the first attempt.
MatchFirst(r1, S, cur, cap, al, ty, rc, beg) ==
  IF r1.ok THEN PavingResult(r1, cur, FALSE)
  ELSE Retry(ReplaceCurrent(S, cur, cap, al, beg), ty, r1.err, rc)

\* A Paving that replaces its current Bump before it turns a value down.
PavingAllocRotating(S, cur, cap, al, ty, v, rc, beg) ==
  IF TooLarge(ty, cap)
    THEN [ok |-> FALSE, S |-> ReplaceCurrent(S, cur, cap, al, beg),
          metadata |-> 0, data |-> 0, err |-> v,
          cur |-> Len(S.arenas) + 1, retried |-> FALSE]
    ELSE MatchFirst(CurrentBumpAlloc(S, cur, ty, v, rc),
                    S, cur, cap, al, ty, rc, beg)

\* Paving::try_alloc / Paving::try_alloc_rc on a Paving whose current Bump
\* is arenas[cur]; beg is where the provider puts a new block, if one is
\* asked for.
PavingAlloc(S, cur, cap, al, ty, v, rc, beg) ==
  IF TooLarge(ty, cap)
    THEN [ok |-> FALSE, S |-> S, metadata |-> 0, data |-> 0, err |-> v,
          cur |-> cur, retried |-> FALSE]
    ELSE MatchFirst(CurrentBumpAlloc(S, cur, ty, v, rc),
                    S, cur, cap, al, ty, rc, beg)

\* ------------------------------------------------------- the program's state
St == [arenas |-> arenas, slots |-> slots, ub |-> FALSE]

\* The outcome of an allocation call: the type and value it was given;
\* whether the Bump / Paving returned Ok (pok); whether the caller got a
\* handle (ok), which one (slot), heap-backed or not (heap); the value
\* handed back in Err (ret); whether the Paving replaced its current Bump.
NoType == [name |-> "", size |-> 0, align |-> 1, nd |-> FALSE]
NoCall ==
  [op |-> "none", ty |-> NoType, arg |-> NoValue, pok |-> FALSE, ok |-> FALSE,
   heap |-> FALSE, slot |-> 0, ret |-> NoValue, retried |-> FALSE]
Call(op, ty, v, pok, ok, heap, slot, ret, retried) ==
  [op |-> op, ty |-> ty, arg |-> v, pok |-> pok, ok |-> ok,
   heap |-> heap, slot |-> slot, ret |-> ret, retried |-> retried]

RcSlots == {s \in 1 .. Len(slots) : ~slots[s].own /\ slots[s].ext > 0}

Occurrences(nb, s) == Cardinality({i \in 1 .. Len(nb) : nb[i] = s})

\* The handles a value under construction may take over from the program.
NbChoices(ty) ==
  IF ty.name # "node" THEN {NoNb}
  ELSE {nb \in UNION {[1 .. n -> RcSlots] : n \in 0 .. MaxNeighbors} :
          \A s \in RcSlots : Occurrences(nb, s) <= slots[s].ext}

\* The values of type ty the program may build: the n-th value built
\* carries the payload n (as the nodes of main.rs carry their index).
ValuesOf(ty) ==
  IF ty.size = 0 THEN {Unit}
  ELSE {[tag |-> Len(slots) + 1, nb |-> nb] : nb \in NbChoices(ty)}

\* Moving the handles of nb out of the program's hands into a value.
MoveIn(sl, nb) ==
  [s \in DOMAIN sl |-> [sl[s] EXCEPT !.ext = @ - Occurrences(nb, s)]]

StatusOf(S) == IF S.ub THEN "ub" ELSE "running"

\* A constructor that goes on to the provider whatever the capacity.
NewUnchecked(cap, al, beg) ==
  [panic |-> FALSE, bump |-> <<BumpNew(cap, al, beg)>>]

\* Bump::new as called by the program, directly or through Paving::new and
\* MixedPaving::new: the capacity check comes before alloc(), so a panic
\* leaves no block behind; otherwise the structure owns one fresh Bump.
New(cap, al, beg) ==
  IF cap = 0 THEN [panic |-> TRUE, bump |-> <<>>]
  ELSE [panic |-> FALSE, bump |-> <<BumpNew(cap, al, beg)>>]

Init ==
  /\ kind \in Kinds
  /\ capacity \in Capacities
  /\ align \in Aligns
  /\ debug \in BOOLEAN
  /\ slots = <<>>
  /\ last = NoCall
  /\ \E beg \in BlockAddrs(LayoutAlign(align)) :
       /\ arenas = New(capacity, align, beg).bump
       /\ current = Len(New(capacity, align, beg).bump)
       /\ status = IF New(capacity, align, beg).panic
                     THEN "panic" ELSE "running"

Config == UNCHANGED <<kind, capacity, align, debug>>

OpName(rc) == IF rc THEN "try_alloc_rc" ELSE "try_alloc"
MixedOpName(rc) == IF rc THEN "alloc_rc" ELSE "alloc"

\* The memory and the handles after a call that left them as S1.
Settle(S1) ==
  /\ arenas' = S1.arenas
  /\ slots' = S1.slots

\* An accepted arena allocation: the handle is handed to the program.
Accept(r, ty, own, v) ==
  /\ arenas' = r.S.arenas
  /\ slots' = Append(MoveIn(r.S.slots, v.nb),
                     ArenaSlot(ty, own, r.metadata, r.data, v))

\* A value handed back to the caller: it keeps the handles it was built of.
HandBack(r) ==
  /\ arenas' = r.S.arenas
  /\ slots' = r.S.slots

\* debug_assert!(res.is_ok()) failed: the unwinding drops res, hence the
\* value in it and the handles the value owns.
Unwind(r, v) ==
  Settle(DropNb([r.S EXCEPT !.slots = MoveIn(@, v.nb)], v.nb))

\* What the caller of Bump::try_alloc(_rc) is left with, given the result r.
BumpOutcome(r, ty, v, rc) ==
  /\ IF r.ok THEN Accept(r, ty, ~rc, v) ELSE HandBack(r)
  /\ last' = Call(OpName(rc), ty, v, r.ok, r.ok, FALSE,
                  IF r.ok THEN Len(slots) + 1 ELSE 0,
                  IF r.ok THEN NoValue ELSE r.err, FALSE)

\* Bump::try_alloc / Bump::try_alloc_rc called on a plain Bump.
BumpAllocCall(rc) ==
  /\ kind = "Bump" /\ status = "running" /\ current # 0
  /\ Len(slots) < MaxSlots
  /\ \E ty \in TypesOf(rc) : \E v \in ValuesOf(ty) :
       BumpOutcome(CurrentBumpAlloc(St, current, ty, v, rc), ty, v, rc)
  /\ UNCHANGED <<current, status>>
  /\ Config

BumpTryAllocCall == BumpAllocCall(FALSE)
BumpTryAllocRcCall == BumpAllocCall(TRUE)

\* debug_assert!(res.is_ok()) fails after the retry.
AssertFails(r) == r.retried /\ ~r.ok /\ debug

\* What the caller of Paving::try_alloc(_rc) is left with.
PavingOutcome(r, ty, v, rc) ==
  /\ Len(r.S.arenas) <= MaxArenas
  /\ IF r.ok THEN Accept(r, ty, ~rc, v)
     ELSE IF AssertFails(r) THEN Unwind(r, v)
     ELSE HandBack(r)
  /\ current' = r.cur
  /\ status' = IF AssertFails(r) THEN "panic" ELSE StatusOf(r.S)
  /\ last' = Call(OpName(rc), ty, v, r.ok, r.ok, FALSE,
                  IF r.ok THEN Len(slots) + 1 ELSE 0,
                  IF r.ok \/ AssertFails(r) THEN NoValue ELSE r.err,
                  r.retried)

\* Paving::try_alloc / Paving::try_alloc_rc.  When the retry fails,
\* debug_assert!(res.is_ok()) panics in a build with debug assertions;
\* without them res is returned.
PavingAllocCall(rc) ==
  /\ kind = "Paving" /\ status = "running" /\ current # 0
  /\ Len(slots) < MaxSlots
  /\ \E ty \in TypesOf(rc) : \E v \in ValuesOf(ty) :
     \E beg \in BlockAddrs(LayoutAlign(align)) :
       PavingOutcome(
         PavingAlloc(St, current, capacity, align, ty, v, rc, beg),
         ty, v, rc)
  /\ Config

PavingTryAllocCall == PavingAllocCall(FALSE)
PavingTryAllocRcCall == PavingAllocCall(TRUE)

\* The match in MixedPaving::alloc(_rc) on the Paving's result r.
MixedOutcome(r, ty, v, rc) ==
  /\ Len(r.S.arenas) <= MaxArenas
  /\ IF r.ok THEN Accept(r, ty, ~rc, v)
     ELSE IF AssertFails(r) THEN Unwind(r, v)
     ELSE /\ arenas' = r.S.arenas
          /\ slots' = Append(MoveIn(r.S.slots, v.nb),
                             HeapSlot(ty, ~rc, r.err))
  /\ current' = r.cur
  /\ status' = IF AssertFails(r) THEN "panic" ELSE StatusOf(r.S)
  /\ last' = Call(MixedOpName(rc), ty, v, r.ok, ~AssertFails(r),
                  ~r.ok /\ ~AssertFails(r),
                  IF AssertFails(r) THEN 0 ELSE Len(slots) + 1,
                  IF r.ok \/ AssertFails(r) THEN NoValue ELSE r.err,
                  r.retried)

\* MixedPaving::alloc / MixedPaving::alloc_rc: the Paving call, and on Err
\* Box::new(val) / Rc::new(val).
MixedAllocCall(rc) ==
  /\ kind = "MixedPaving" /\ status = "running" /\ current # 0
  /\ Len(slots) < MaxSlots
  /\ \E ty \in TypesOf(rc) : \E v \in ValuesOf(ty) :
     \E beg \in BlockAddrs(LayoutAlign(align)) :
       MixedOutcome(
         PavingAlloc(St, current, capacity, align, ty, v, rc, beg),
         ty, v, rc)
  /\ Config

MixedAllocOwnedCall == MixedAllocCall(FALSE)
MixedAllocRcCall == MixedAllocCall(TRUE)

SettleStatus(S1) ==
  /\ Settle(S1)
  /\ status' = StatusOf(S1)

\* <RcBumpMember as Clone>::clone on a handle the program holds.
CloneCall ==
  /\ status = "running"
  /\ \E s \in RcSlots :
       /\ slots[s].ext < MaxCopies
       /\ SettleStatus(CloneMember([St EXCEPT !.slots[s].ext = @ + 1], s))
  /\ last' = NoCall
  /\ UNCHANGED current
  /\ Config

\* A handle the program holds goes out of scope.
DropCall ==
  /\ status = "running"
  /\ \E s \in 1 .. Len(slots) :
       /\ slots[s].ext > 0
       /\ SettleStatus(DropMember([St EXCEPT !.slots[s].ext = @ - 1], s))
  /\ last' = NoCall
  /\ UNCHANGED current
  /\ Config

\* *handle = t through DerefMut of an owning handle.
WriteCall ==
  /\ status = "running"
  /\ \E s \in 1 .. Len(slots) : \E t \in {WriteTag} :
       /\ slots[s].own /\ slots[s].ext > 0 /\ slots[s].ty.size > 0
       /\ SettleStatus(WriteMember([St EXCEPT !.slots[s].val.tag = t], s, t))
  /\ last' = NoCall
  /\ UNCHANGED current
  /\ Config

\* The Bump / Paving / MixedPaving structure goes out of scope.
DropStructCall ==
  /\ status = "running" /\ current # 0
  /\ SettleStatus(DropBump(St, current))
  /\ current' = 0
  /\ last' = NoCall
  /\ Config

Next ==
  \/ BumpTryAllocCall
  \/ BumpTryAllocRcCall
  \/ PavingTryAllocCall
  \/ PavingTryAllocRcCall
  \/ MixedAllocOwnedCall
  \/ MixedAllocRcCall
  \/ CloneCall
  \/ DropCall
  \/ WriteCall
  \/ DropStructCall

Spec == Init /\ [][Next]_vars

\* ---------------------------------------------- the two layouts side by side
\* A second program: two plain Bumps of the same capacity, arenas[1] used
\* with a T that has no drop glue (bare layout) and arenas[2] with a T of
\* the same size and alignment that needs drop (wrapped layout).  The
\* program performs every try_alloc_rc, clone, drop and Bump drop on both,
\* so slots 2k-1 and 2k are the k-th handle of either run.
B1 == [name |-> "b1", size |-> 1, align |-> 1, nd |-> FALSE]
DualPairs == {<<U64, Node>>, <<B1, D1>>}
DualCapacities == {16, 32, 48}

DualInit ==
  /\ kind = "Dual"
  /\ capacity \in DualCapacities
  /\ align \in Aligns
  /\ debug = FALSE
  /\ slots = <<>>
  /\ last = NoCall
  /\ \E b1, b2 \in BlockAddrs(LayoutAlign(align)) :
       arenas = <<BumpNew(capacity, align, b1), BumpNew(capacity, align, b2)>>
  /\ current = 1
  /\ status = "running"

Bare(k) == 2 * k - 1
Wrap(k) == 2 * k
Pairs == 1 .. (Len(slots) \div 2)

\* Both calls returned Ok: the program holds the two new handles.
DualAccept(r1, r2, p, v) ==
  /\ r1.ok /\ r2.ok
  /\ arenas' = r2.S.arenas
  /\ slots' = Append(Append(r2.S.slots,
                            ArenaSlot(p[1], FALSE, r1.metadata, r1.data, v)),
                     ArenaSlot(p[2], FALSE, r2.metadata, r2.data, v))
  /\ status' = StatusOf(r2.S)

DualSecond(r1, p, v) ==
  DualAccept(r1, BumpTryAllocRc(r1.S, 2, p[2], v), p, v)

\* Bump::try_alloc_rc(v) on both Bumps, accepted by both.
DualAllocRcCall ==
  /\ status = "running" /\ current # 0
  /\ Len(slots) < 2 * MaxSlots
  /\ \E p \in DualPairs :
       DualSecond(BumpTryAllocRc(St, 1, p[1], [tag |-> Len(slots) + 1,
                                               nb |-> NoNb]),
                  p, [tag |-> Len(slots) + 1, nb |-> NoNb])
  /\ last' = NoCall
  /\ UNCHANGED current
  /\ Config

\* clone of the k-th handle in both runs.
DualCloneCall ==
  /\ status = "running"
  /\ \E k \in Pairs :
       /\ slots[Bare(k)].ext > 0 /\ slots[Bare(k)].ext < MaxCopies
       /\ SettleStatus(
            CloneMember(
              CloneMember([St EXCEPT !.slots[Bare(k)].ext = @ + 1,
                                     !.slots[Wrap(k)].ext = @ + 1],
                          Bare(k)),
              Wrap(k)))
  /\ last' = NoCall
  /\ UNCHANGED current
  /\ Config

\* drop of one copy of the k-th handle in both runs.
DualDropCall ==
  /\ status = "running"
  /\ \E k \in Pairs :
       /\ slots[Bare(k)].ext > 0
       /\ SettleStatus(
            DropRcBumpMember(
              DropRcBumpMember([St EXCEPT !.slots[Bare(k)].ext = @ - 1,
                                          !.slots[Wrap(k)].ext = @ - 1],
                               Bare(k)),
              Wrap(k)))
  /\ last' = NoCall
  /\ UNCHANGED current
  /\ Config

\* Both Bumps go out of scope.
DualDropStructCall ==
  /\ status = "running" /\ current # 0
  /\ SettleStatus(DropBump(DropBump(St, 1), 2))
  /\ current' = 0
  /\ last' = NoCall
  /\ Config

DualNext ==
  \/ DualAllocRcCall
  \/ DualCloneCall
  \/ DualDropCall
  \/ DualDropStructCall

SpecDual == DualInit /\ [][DualNext]_vars

\* ------------------------------------------ a MixedPaving program on its own
\* A third program: one MixedPaving and the handles it gave out.  With a
\* capacity of 15 the data region is 16 bytes: a wrapped D1 entry is placed
\* in an arena while a Node goes to the heap, so a heap-backed value can
\* own handles into an arena.
MixedCapacities == {8, 15, 16}

MixedInit ==
  /\ kind = "MixedPaving"
  /\ capacity \in MixedCapacities
  /\ align \in Aligns
  /\ debug \in BOOLEAN
  /\ slots = <<>>
  /\ last = NoCall
  /\ \E beg \in BlockAddrs(LayoutAlign(align)) :
       /\ arenas = New(capacity, align, beg).bump
       /\ current = Len(New(capacity, align, beg).bump)
       /\ status = IF New(capacity, align, beg).panic
                     THEN "panic" ELSE "running"

MixedNext ==
  \/ MixedAllocOwnedCall
  \/ MixedAllocRcCall
  \/ CloneCall
  \/ DropCall
  \/ WriteCall
  \/ DropStructCall

SpecMixed == MixedInit /\ [][MixedNext]_vars

\* ======================================================== the properties
\* Bookkeeping shared by the properties below (none of it is program state).

Slots == 1 .. Len(slots)
Arenas == 1 .. Len(arenas)
ArenaBacked(s) == ~slots[s].heap
WrappedSlot(s) == Wrapped(slots[s])

\* The value stored in slot q still owns the handles it was built of: its
\* destructor has not run.
OwnsHandles(q) == slots[q].ty.nd /\ slots[q].dtor = 0

\* Copies of the handle to slot s held inside stored values.
StoredCopies(s) ==
  Cardinality({p \in Slots \X (1 .. MaxNeighbors + 1) :
                 /\ OwnsHandles(p[1])
                 /\ p[2] <= Len(slots[p[1]].val.nb)
                 /\ slots[p[1]].val.nb[p[2]] = s})

\* All live copies of the handle to slot s.
LiveCopies(s) == slots[s].ext + StoredCopies(s)

\* C1: a block is deallocated at most once, in the very step in which its
\* Metadata.count goes from a positive value to 0; it is never deallocated
\* while count > 0, and no step touches the Metadata of a freed block.
C1_FreedExactlyAtZero ==
  [][ /\ status' # "ub"
      /\ \A a \in Arenas :
           /\ arenas'[a].deallocs \in {arenas[a].deallocs,
                                       arenas[a].deallocs + 1}
           /\ arenas'[a].deallocs <= 1
           /\ (arenas'[a].deallocs = arenas[a].deallocs + 1)
                <=> (arenas[a].count >= 1 /\ arenas'[a].count = 0)
           /\ (arenas'[a].deallocs = 1) <=> (arenas'[a].count = 0) ]_vars

\* A plain Bump on which try_alloc and try_alloc_rc were accepted, a copy
\* was dropped by a destructor, and whose block has been freed.
C1_Witness ==
  /\ kind = "Bump" /\ current = 0 /\ Len(slots) = 2
  /\ arenas[1].deallocs = 1 /\ arenas[1].count = 0
  /\ \E s \in Slots : slots[s].own
  /\ \E s \in Slots : ~slots[s].own

\* The memory and the handles after the step.
StNext == [arenas |-> arenas', slots |-> slots', ub |-> FALSE]

\* The handle to arena slot s is usable: its block has not been freed and
\* dereferencing it yields the value last stored through it.
ReadsOwnValue(S, s) ==
  /\ ~Freed(S.arenas[S.slots[s].metadata])
  /\ Deref(S, s) = S.slots[s].val

\* C2: on a plain Bump, every live handle refers to a block that is not
\* freed and reads its own value, also after the Bump itself was dropped;
\* a write through an owning handle changes that handle's slot only.
C2_HandlesOutliveBump ==
  [][ kind = "Bump" =>
        /\ \A s \in 1 .. Len(slots') :
             LiveCopies(s)' > 0 => ReadsOwnValue(StNext, s)
        /\ \A s \in Slots :
             slots'[s].val # slots[s].val =>
               /\ Deref(StNext, s).tag = WriteTag
               /\ \A q \in Slots \ {s} :
                    LiveCopies(q) > 0 => Deref(StNext, q) = Deref(St, q) ]_vars

\* Scenario A after the Bump was dropped: two owning handles into the one
\* block, the first written through, the second untouched.
C2_Witness ==
  /\ kind = "Bump" /\ current = 0 /\ Len(slots) = 2
  /\ slots[1].own /\ slots[2].own
  /\ slots[1].ext = 1 /\ slots[2].ext = 1
  /\ slots[1].metadata = slots[2].metadata
  /\ Deref(St, 1).tag = WriteTag
  /\ Deref(St, 2).tag = 2

\* C3: the destructor of the value behind a wrapped shared handle has run
\* exactly once when no copy of the handle is left, and not at all while
\* any copy (held by the program or stored in a value) is live.
C3_DestructorAtLastDrop ==
  \A s \in Slots :
    WrappedSlot(s) =>
      slots[s].dtor = IF LiveCopies(s) = 0 THEN 1 ELSE 0

\* One wrapped value with two live copies and no destructor run, another
\* whose copies are all gone and whose destructor has run.
C3_Witness ==
  \E s, q \in Slots :
    /\ WrappedSlot(s) /\ WrappedSlot(q)
    /\ slots[s].ext = 2 /\ slots[s].dtor = 0
    /\ LiveCopies(q) = 0 /\ slots[q].dtor = 1

\* C4 (as claimed): a Paving::try_alloc call that passes the size check
\* returns a handle, and the debug assertion after the retry does not fail.
C4_TryAllocRetrySucceeds ==
  (kind = "Paving" /\ last.op = "try_alloc"
     /\ 2 * last.ty.size <= capacity)
    => (last.ok /\ status # "panic")

\* C5 (as claimed): a Paving::try_alloc_rc call that passes the size check
\* returns a handle, in the bare and in the wrapped layout, and the debug
\* assertion after the retry does not fail.
C5_TryAllocRcRetrySucceeds ==
  (kind = "Paving" /\ last.op = "try_alloc_rc"
     /\ 2 * last.ty.size <= capacity)
    => (last.ok /\ status # "panic")

\* Live handles into the block of arena a.
HandlesInto(a) ==
  {s \in Slots : ArenaBacked(s) /\ slots[s].metadata = a /\ LiveCopies(s) > 0}

\* C6: under a Paving, whatever the number of rotations and also after the
\* Paving is dropped, every live handle reads its own value from a block
\* that is not freed, and a retired arena's block is freed exactly when no
\* live handle references it.
C6_RotationKeepsHandles ==
  kind # "Bump" =>
    /\ \A s \in Slots :
         (ArenaBacked(s) /\ LiveCopies(s) > 0) => ReadsOwnValue(St, s)
    /\ \A a \in Arenas :
         a # current => (Freed(arenas[a]) <=> HandlesInto(a) = {})

\* A dropped Paving that had rotated, with live handles into two arenas,
\* one issued before and one after a rotation.
C6_Witness ==
  /\ kind = "Paving" /\ current = 0 /\ Len(arenas) >= 2
  /\ \E s, q \in Slots :
       /\ slots[s].metadata < slots[q].metadata
       /\ slots[s].metadata > 0
       /\ slots[s].ext > 0 /\ slots[q].ext > 0
       /\ ReadsOwnValue(St, s) /\ ReadsOwnValue(St, q)

\* The handles stored in the value of slot q.
StoredIn(q) ==
  IF OwnsHandles(q)
    THEN {slots[q].val.nb[i] : i \in 1 .. Len(slots[q].val.nb)}
    ELSE {}

RECURSIVE ReachFrom(_, _)
\* The slots reachable from the set R through stored handles, n levels deep.
ReachFrom(R, n) ==
  IF n = 0 THEN R
  ELSE ReachFrom(R \cup UNION {StoredIn(q) : q \in R}, n - 1)

Roots == {s \in Slots : slots[s].ext > 0}

\* C7: a handle stored in a value keeps the referenced block alive until
\* the holding value's destructor has run; and once the structure and every
\* external handle but one root are dropped, every value reachable from the
\* root is readable, while every arena holding none of them has been freed.
C7_StoredHandlesKeepBlocks ==
  /\ \A q \in Slots : \A s \in StoredIn(q) :
       ArenaBacked(s) => ReadsOwnValue(St, s)
  /\ (current = 0 /\ Cardinality(Roots) = 1
        /\ \A r \in Roots : slots[r].ext = 1)
       => /\ \A s \in ReachFrom(Roots, MaxSlots) :
               ArenaBacked(s) => ReadsOwnValue(St, s)
          /\ \A a \in Arenas :
               Freed(arenas[a])
                 <=> ~\E s \in ReachFrom(Roots, MaxSlots) :
                        ArenaBacked(s) /\ slots[s].metadata = a

\* A node in a later arena holds the only handle to a node in a retired
\* arena; the Paving and every other external handle are gone.
C7_Witness ==
  /\ kind = "Paving" /\ current = 0 /\ Cardinality(Roots) = 1
  /\ \E q \in Roots : \E s \in StoredIn(q) :
       /\ slots[q].ext = 1 /\ slots[s].ext = 0
       /\ ArenaBacked(q) /\ ArenaBacked(s)
       /\ slots[s].metadata < slots[q].metadata
       /\ ~Freed(arenas[slots[s].metadata])
       /\ Deref(St, s).tag = s

\* C8: a Paving call with 2 * size(T) > capacity hands the value back and
\* leaves the Paving as it was: no arena is created, the current arena is
\* the same, with the same first_free and count.
C8_TooLargeRejected ==
  [][ (kind # "Bump" /\ last'.op # "none"
         /\ 2 * last'.ty.size > capacity)
        => /\ ~last'.pok
           /\ last'.ret = last'.arg
           /\ ~last'.retried
           /\ arenas' = arenas
           /\ current' = current
           /\ kind = "Paving" => (~last'.ok /\ slots' = slots) ]_vars

\* Paving::new(8, _).try_alloc of an 8-byte value on the still empty
\* current arena, where the value would have fitted.
C8_Witness ==
  /\ kind = "Paving" /\ capacity = 8 /\ current # 0
  /\ last.op = "try_alloc" /\ last.ty = Node
  /\ ~last.ok /\ last.ret = last.arg
  /\ Len(arenas) = 1 /\ arenas[current].count = 1
  /\ CanFit(arenas[current], Node.size, Node.align).some

\* The slot type of a call: T, or BumpRcEntry<T> for try_alloc_rc of a T
\* that needs drop.
SlotSize(ty, op) ==
  IF op = "try_alloc_rc" /\ ty.nd THEN EntrySize(ty) ELSE ty.size
SlotAlign(ty, op) ==
  IF op = "try_alloc_rc" /\ ty.nd THEN EntryAlign(ty) ELSE ty.align

\* first_free + alignment padding + slot size exceeds the Metadata address.
Exceeds(b, size, al) ==
  RoundUp(b.first_free, al) + size > b.meta

\* C9: Bump::try_alloc and Bump::try_alloc_rc fail exactly when first_free
\* plus padding plus slot size exceeds the Metadata address; a failed call
\* hands back the caller's value and changes nothing.
C9_BumpFailsExactlyWhenFull ==
  [][ (kind = "Bump" /\ last'.op # "none")
        => /\ last'.ok <=>
                ~Exceeds(arenas[current], SlotSize(last'.ty, last'.op),
                         SlotAlign(last'.ty, last'.op))
           /\ ~last'.ok =>
                /\ last'.ret = last'.arg
                /\ arenas' = arenas
                /\ slots' = slots
                /\ current' = current ]_vars

\* try_alloc_rc of a wrapped value turned away by a partly filled Bump: the
\* bare value comes back.
C9_Witness ==
  /\ kind = "Bump" /\ last.op = "try_alloc_rc" /\ last.ty = D1
  /\ ~last.ok /\ last.ret = last.arg /\ last.ret.tag = 2
  /\ Len(slots) = 1 /\ arenas[1].count = 2

\* C10 (as claimed): every MixedPaving::alloc / alloc_rc call returns a
\* handle without aborting, arena-backed exactly when the Paving accepted
\* the value.
C10_MixedAllocTotal ==
  (kind = "MixedPaving" /\ last.op # "none")
    => /\ status = "running"
       /\ last.ok
       /\ last.slot = Len(slots)
       /\ slots[last.slot].heap <=> ~last.pok

\* C11: dereferencing the handle an allocation call returned yields the
\* value the call was given, and every live handle (arena-backed in either
\* layout, or heap-backed) yields the value last stored through it, whatever
\* happened to other handles since.
C11_DerefRoundTrip ==
  /\ (last.op # "none" /\ last.ok) => Deref(St, last.slot) = last.arg
  /\ \A s \in Slots : LiveCopies(s) > 0 => Deref(St, s) = slots[s].val

\* A MixedPaving with an arena-backed owning handle that was written
\* through, and a heap-backed shared handle allocated afterwards.
C11_Witness ==
  /\ kind = "MixedPaving" /\ Len(slots) = 2 /\ last.op = "alloc_rc"
  /\ slots[1].own /\ ~slots[1].heap /\ slots[1].ext = 1
  /\ Deref(St, 1).tag = WriteTag
  /\ slots[2].heap /\ ~slots[2].own
  /\ Deref(St, 2) = last.arg

\* C12: on a plain Bump, whatever the order in which the handles and the
\* Bump itself are dropped, every handle not yet dropped reads its own value
\* from the block, count never goes below zero, and the block is freed
\* exactly when the Bump and every handle are gone.
C12_AnyDropOrder ==
  kind = "Bump" =>
    /\ status # "ub"
    /\ \A a \in Arenas :
         /\ arenas[a].count >= 0
         /\ \A s \in HandlesInto(a) : ReadsOwnValue(St, s)
         /\ Freed(arenas[a]) <=> (current = 0 /\ HandlesInto(a) = {})

\* The first handle and then the Bump were dropped before the second
\* handle, which alone keeps the block.
C12_Witness ==
  /\ kind = "Bump" /\ current = 0 /\ Len(slots) = 2
  /\ slots[1].own /\ slots[1].ext = 0 /\ slots[2].ext = 1
  /\ ~Freed(arenas[1]) /\ arenas[1].count = 1
  /\ ReadsOwnValue(St, 2)

\* C13: running the same try_alloc_rc, clone, drop and Bump drop steps on a
\* bare-layout and on a wrapped-layout Bump, after every step the k-th
\* value is live in both or in neither, readable in both while live (the
\* wrapped entry's private count standing for the copies the bare run
\* counts in the block's count), and the two blocks are freed in the same
\* step.
C13_LayoutsAgreeOnLiveness ==
  /\ status # "ub"
  /\ Freed(arenas[1]) <=> Freed(arenas[2])
  /\ \A k \in Pairs :
       /\ (slots[Bare(k)].ext > 0) <=> (slots[Wrap(k)].dtor = 0)
       /\ slots[Bare(k)].ext > 0 =>
            /\ ReadsOwnValue(St, Bare(k)) /\ ReadsOwnValue(St, Wrap(k))
            /\ Deref(St, Bare(k)) = Deref(St, Wrap(k))
            /\ ReadCount(arenas[2].mem, slots[Wrap(k)].data)
                 = slots[Bare(k)].ext

\* Both Bumps dropped, the first handle cloned and one of its copies
\* dropped, the second handle dropped for good, the blocks still held.
C13_Witness ==
  /\ kind = "Dual" /\ current = 0 /\ Len(slots) = 4
  /\ slots[Bare(1)].ext = 1 /\ arenas[1].count = 1
  /\ ReadCount(arenas[2].mem, slots[Wrap(1)].data) = 1
  /\ slots[Wrap(2)].dtor = 1 /\ slots[Bare(2)].ext = 0
  /\ ~Freed(arenas[1]) /\ ~Freed(arenas[2])

\* C14 (as claimed): a call in which the Paving replaces its current arena
\* does not free the old arena's block.
C14_ReplacementNeverFrees ==
  [][ (kind # "Bump" /\ last'.retried)
        => arenas'[current].deallocs = arenas[current].deallocs ]_vars

\* C14 (amended): a call in which the Paving replaces its current arena
\* frees the old arena's block exactly when no live handle references it;
\* a block that a live handle references is not freed by the replacement
\* and its handles still read their values.
C14_ReplacementFreesOnlyUnreferenced ==
  [][ (kind # "Bump" /\ last'.retried)
        => \A a \in Arenas :
             a = current =>
               /\ current' # a
               /\ Freed(arenas[a])' <=> (HandlesInto(a)' = {})
               /\ \A s \in HandlesInto(a)' : ReadsOwnValue(StNext, s) ]_vars

\* A replacement just happened; the retired arena is still referenced by a
\* live handle and its block is not freed.
C14_Witness ==
  /\ kind = "Paving" /\ last.retried /\ last.ok /\ current = 2
  /\ HandlesInto(1) # {}
  /\ ~Freed(arenas[1])
  /\ \A s \in HandlesInto(1) : ReadsOwnValue(St, s)

\* C15: with capacity 0 the constructor panics before any block exists (no
\* arena, no handle, nothing the program could go on with); with a positive
\* capacity the structure just constructed owns one block that is not
\* freed, with count 1, first_free at the block start and the Metadata
\* right after the data region.
C15_NewChecksCapacity ==
  /\ capacity = 0 =>
       /\ status = "panic" /\ arenas = <<>> /\ slots = <<>>
       /\ current = 0 /\ last = NoCall
  /\ (capacity > 0 /\ slots = <<>> /\ last = NoCall /\ current # 0) =>
       /\ status = "running" /\ Len(arenas) = 1 /\ current = 1
       /\ arenas[1].count = 1 /\ arenas[1].deallocs = 0
       /\ arenas[1].first_free = arenas[1].beg
       /\ arenas[1].meta = arenas[1].beg + RoundUp(capacity, MetaAlign)
       /\ arenas[1].beg % LayoutAlign(align) = 0

\* MixedPaving::new(0, _): the panic of Bump::new, nothing allocated.
C15_Witness ==
  /\ kind = "MixedPaving" /\ capacity = 0
  /\ status = "panic" /\ arenas = <<>> /\ current = 0

\* The claims slot s holds on the block of arena a: one per live owning
\* handle, one per live copy of a bare shared handle, one per wrapped entry
\* whose private count is positive.
ClaimsOf(a, s) ==
  IF slots[s].heap \/ slots[s].metadata # a THEN 0
  ELSE IF slots[s].own THEN slots[s].ext
  ELSE IF ~slots[s].ty.nd THEN LiveCopies(s)
  ELSE IF ReadCount(arenas[a].mem, slots[s].data) > 0 THEN 1 ELSE 0

RECURSIVE ClaimsUpTo(_, _)
ClaimsUpTo(a, n) ==
  IF n = 0 THEN 0 ELSE ClaimsUpTo(a, n - 1) + ClaimsOf(a, n)

\* C16: while a block is not freed, its Metadata.count is the stake of the
\* Bump structure (if still alive) plus the claims of the handles into it,
\* hence at least 1; a freed block has count 0 and is never decremented.
C16_CountIsNumberOfClaims ==
  /\ status # "ub"
  /\ \A a \in Arenas :
       IF Freed(arenas[a]) THEN arenas[a].count = 0
       ELSE /\ arenas[a].count >= 1
            /\ arenas[a].count =
                 (IF a = current THEN 1 ELSE 0) + ClaimsUpTo(a, Len(slots))

\* A live Bump with an owning handle and two copies of a bare shared handle.
C16_Witness ==
  /\ kind = "Bump" /\ current = 1 /\ Len(slots) = 2
  /\ slots[1].own /\ slots[1].ext = 1
  /\ ~slots[2].own /\ ~slots[2].ty.nd /\ slots[2].ext = 2
  /\ arenas[1].count = 4

\* The bytes the slot behind handle s occupies: size_of::<T>() from its
\* address, or the whole entry in the wrapped layout.
SlotEnd(s) ==
  slots[s].data
    + (IF Wrapped(slots[s]) THEN EntrySize(slots[s].ty) ELSE slots[s].ty.size)

\* C17: in every state block start <= first_free <= Metadata address and
\* every slot handed out lies between the block start and first_free, so
\* that nothing was written at or beyond the Metadata address; and no step
\* lowers first_free.
C17_FirstFreeWithinBlock ==
  /\ [](\A a \in Arenas :
          /\ arenas[a].beg <= arenas[a].first_free
          /\ arenas[a].first_free <= arenas[a].meta
          /\ \A s \in Slots :
               (ArenaBacked(s) /\ slots[s].metadata = a) =>
                 /\ arenas[a].beg <= slots[s].data
                 /\ SlotEnd(s) <= arenas[a].first_free
                 /\ SlotEnd(s) <= arenas[a].meta)
  /\ [][\A a \in Arenas :
          arenas'[a].first_free >= arenas[a].first_free]_vars

\* A Bump filled to the last byte: first_free has reached the Metadata
\* address after two allocations.
C17_Witness ==
  /\ kind = "Bump" /\ Len(slots) = 2
  /\ arenas[1].first_free = arenas[1].meta
  /\ slots[1].data = arenas[1].beg
  /\ SlotEnd(2) = arenas[1].meta

\* C18: an accepted allocation on a Bump raises Metadata.count by exactly 1
\* in either layout, places the slot at the old first_free rounded up to
\* the slot type's alignment and sets first_free to the slot's end; the
\* wrapped entry starts with private count 1 followed by the value, the
\* bare slot holds the value only.
C18_AcceptedAllocEffects ==
  [][ (last'.op # "none" /\ last'.ok /\ ~last'.heap /\ ~last'.retried)
        => \A a \in Arenas :
             a = current =>
               /\ slots'[last'.slot].metadata = a
               /\ arenas'[a].count = arenas[a].count + 1
               /\ slots'[last'.slot].data =
                    RoundUp(arenas[a].first_free,
                            IF Wrapped(slots'[last'.slot])
                              THEN EntryAlign(last'.ty) ELSE last'.ty.align)
               /\ arenas'[a].first_free =
                    slots'[last'.slot].data
                      + (IF Wrapped(slots'[last'.slot])
                           THEN EntrySize(last'.ty) ELSE last'.ty.size)
               /\ Wrapped(slots'[last'.slot]) <=>
                    (last'.ty.nd /\ last'.op \in {"try_alloc_rc", "alloc_rc"})
               /\ IF Wrapped(slots'[last'.slot])
                    THEN /\ arenas'[a].mem[slots'[last'.slot].data]
                              = CountCell(1)
                         /\ arenas'[a].mem[slots'[last'.slot].data
                                             + ValueOffset(last'.ty)]
                              = ValueCell(last'.arg)
                    ELSE \A x \in DOMAIN arenas'[a].mem :
                           (x >= slots'[last'.slot].data
                              /\ x < arenas'[a].first_free)
                             => arenas'[a].mem[x] = ValueCell(last'.arg) ]_vars

\* try_alloc_rc of a u64 (bare layout) on a Bump holding a one-byte value:
\* the slot starts 8 bytes into the block, after 7 bytes of padding.
C18_Witness ==
  /\ kind = "Bump" /\ Len(slots) = 2 /\ last.ok
  /\ last.op = "try_alloc_rc" /\ last.ty = U64 /\ slots[1].ty = D1
  /\ slots[2].data = arenas[1].beg + 8
  /\ arenas[1].first_free = arenas[1].beg + 16
  /\ arenas[1].count = 3

\* Slot s is a bare-layout shared handle: arena-backed, T without drop glue.
BareShared(s) ==
  ~slots[s].heap /\ ~slots[s].own /\ ~slots[s].ty.nd

\* C19: a clone of a bare-layout shared handle raises the Metadata.count of
\* its arena by exactly 1 and a drop lowers it by exactly 1; nothing else
\* changes (first_free, the stored bytes, every other arena, every other
\* handle), except that the drop that takes count to 0 frees the block.
C19_BareCloneDropFrame ==
  [][ \A s \in Slots :
        (last'.op = "none" /\ BareShared(s)
           /\ slots'[s].ext # slots[s].ext)
          => /\ slots' = [slots EXCEPT ![s].ext = slots'[s].ext]
             /\ current' = current
             /\ status' = "running"
             /\ \/ /\ slots'[s].ext = slots[s].ext + 1
                   /\ arenas' = [arenas EXCEPT ![slots[s].metadata].count = @ + 1]
                \/ /\ slots'[s].ext = slots[s].ext - 1
                   /\ arenas[slots[s].metadata].count > 1
                   /\ arenas' = [arenas EXCEPT ![slots[s].metadata].count = @ - 1]
                \/ /\ slots'[s].ext = slots[s].ext - 1
                   /\ arenas[slots[s].metadata].count = 1
                   /\ arenas' =
                        [arenas EXCEPT
                           ![slots[s].metadata].count = 0,
                           ![slots[s].metadata].deallocs = 1,
                           ![slots[s].metadata].mem =
                              [x \in DOMAIN @ |-> Uninit]] ]_vars

\* A retired structure whose block is held by the two copies of one bare
\* shared handle: count 2, both claims made by the handle.
C19_Witness ==
  /\ kind = "Paving" /\ current = 0 /\ Len(slots) = 1
  /\ BareShared(1) /\ slots[1].ext = 2
  /\ arenas[1].count = 2 /\ ~Freed(arenas[1])

\* The private count of the entry behind the wrapped handle s.
PrivateCount(s) == ReadCount(arenas[slots[s].metadata].mem, slots[s].data)

\* C20: the private count of a wrapped entry equals the number of live
\* copies of its handle; a clone and a drop that leaves a copy change that
\* private count only, not Metadata.count; the drop of the last copy runs
\* the destructor and takes the entry's one claim off Metadata.count.
C20_PrivateCountIsCopies ==
  /\ [](\A s \in Slots :
          WrappedSlot(s) =>
            IF Freed(arenas[slots[s].metadata]) THEN LiveCopies(s) = 0
            ELSE PrivateCount(s) = LiveCopies(s))
  /\ [][ \A s \in Slots :
           (last'.op = "none" /\ WrappedSlot(s)
              /\ slots'[s].ext # slots[s].ext)
             => \/ /\ slots'[s].ext = slots[s].ext + 1
                   /\ slots' = [slots EXCEPT ![s].ext = @ + 1]
                   /\ arenas' =
                        [arenas EXCEPT ![slots[s].metadata].mem =
                           SetCount(@, slots[s].data, PrivateCount(s) + 1)]
                \/ /\ slots'[s].ext = slots[s].ext - 1
                   /\ LiveCopies(s) > 1
                   /\ slots' = [slots EXCEPT ![s].ext = @ - 1]
                   /\ arenas' =
                        [arenas EXCEPT ![slots[s].metadata].mem =
                           SetCount(@, slots[s].data, PrivateCount(s) - 1)]
                \/ /\ slots'[s].ext = slots[s].ext - 1
                   /\ LiveCopies(s) = 1
                   /\ slots'[s].dtor = slots[s].dtor + 1
                   /\ IF slots[s].val.nb = <<>>
                        THEN /\ arenas'[slots[s].metadata].count
                                  = arenas[slots[s].metadata].count - 1
                             /\ \A a \in Arenas \ {slots[s].metadata} :
                                  arenas'[a] = arenas[a]
                        ELSE arenas'[slots[s].metadata].count
                               <= arenas[slots[s].metadata].count - 1 ]_vars

\* A live MixedPaving with one wrapped entry and two copies of its handle:
\* private count 2, Metadata.count 2 (the structure and the entry).
C20_Witness ==
  /\ kind = "MixedPaving" /\ current = 1 /\ Len(slots) = 1
  /\ WrappedSlot(1) /\ slots[1].ext = 2
  /\ PrivateCount(1) = 2
  /\ arenas[1].count = 2

\* The state in the middle of the drop of the program's last copy of the
\* handle to slot s, when drop_in_place of the value has returned and
\* decrement_and_drop has not been called yet.
DestructorDone(s) ==
  DropInPlace(
    [St EXCEPT !.slots[s].ext = @ - 1,
               !.arenas[slots[s].metadata].mem =
                  IF Wrapped(slots[s])
                    THEN SetCount(@, slots[s].data, PrivateCount(s) - 1)
                    ELSE @],
    s, Deref(St, s))

\* C21: in the drop of an owning handle and in the drop of the last copy of
\* a wrapped shared handle the destructor completes on a block that is not
\* freed, and only then Metadata.count is decremented: the state after the
\* drop is decrement_and_drop applied to the state the destructor left.  A
\* freed block holds no value whose destructor has not run.
C21_DestructorBeforeDecrement ==
  /\ [](\A s \in Slots :
          (ArenaBacked(s) /\ slots[s].ty.nd
             /\ Freed(arenas[slots[s].metadata]))
            => slots[s].dtor = 1)
  /\ [][ \A s \in Slots :
           (last'.op = "none" /\ ArenaBacked(s) /\ slots[s].ty.nd
              /\ slots'[s].ext = slots[s].ext - 1
              /\ slots'[s].dtor = slots[s].dtor + 1)
             => /\ status' = "running"
                /\ ~DestructorDone(s).ub
                /\ DestructorDone(s).slots[s].dtor = 1
                /\ DestructorDone(s).arenas[slots[s].metadata].deallocs = 0
                /\ slots' = DestructorDone(s).slots
                /\ arenas' =
                     DecrementAndDrop(DestructorDone(s),
                                      slots[s].metadata).arenas
                /\ arenas'[slots[s].metadata].count =
                     DestructorDone(s).arenas[slots[s].metadata].count - 1
           ]_vars

\* The drop of an owning handle, the last claim on the block of a dropped
\* Bump: the destructor has run and the block is freed.
C21_Witness ==
  /\ kind = "Bump" /\ current = 0 /\ Len(slots) = 1
  /\ slots[1].own /\ slots[1].ty.nd /\ slots[1].ext = 0
  /\ slots[1].dtor = 1
  /\ Freed(arenas[1])

\* The call op is a shared-handle allocation.
IsRc(op) == op \in {"try_alloc_rc", "alloc_rc"}

\* The current arena has no room for the slot of a call with type ty.
CurrentRejects(ty, op) ==
  Exceeds(arenas[current],
          IF IsRc(op) /\ ty.nd THEN EntrySize(ty) ELSE ty.size,
          IF IsRc(op) /\ ty.nd THEN EntryAlign(ty) ELSE ty.align)

\* C22: a Paving call creates a new arena exactly when the size check
\* passed and the current arena rejected the value, and then exactly one,
\* of the Paving's capacity and alignment, which becomes the current arena
\* and receives the single retry; any other call creates no arena and
\* keeps the current one.
C22_AtMostOneNewArena ==
  [][ (kind # "Bump" /\ last'.op # "none")
        => /\ last'.retried <=>
                (2 * last'.ty.size <= capacity
                   /\ CurrentRejects(last'.ty, last'.op))
           /\ IF last'.retried
                THEN /\ Len(arenas') = Len(arenas) + 1
                     /\ current' = Len(arenas')
                     /\ arenas'[current'].meta - arenas'[current'].beg
                          = RoundUp(capacity, MetaAlign)
                     /\ arenas'[current'].beg % LayoutAlign(align) = 0
                     /\ DOMAIN arenas'[current'].mem
                          = arenas'[current'].beg
                              .. (arenas'[current'].meta - 1)
                     /\ arenas'[current'].deallocs = 0
                     /\ IF last'.pok
                          THEN /\ arenas'[current'].count = 2
                               /\ slots'[last'.slot].metadata = current'
                          ELSE /\ arenas'[current'].count = 1
                               /\ arenas'[current'].first_free
                                    = arenas'[current'].beg
                ELSE /\ Len(arenas') = Len(arenas)
                     /\ current' = current ]_vars

\* Paving::new(16, _).try_alloc served by the second arena, created by
\* this call after the first one rejected the value.
C22_Witness ==
  /\ kind = "Paving" /\ capacity = 16 /\ Len(arenas) = 2 /\ current = 2
  /\ last.op = "try_alloc" /\ last.retried /\ last.ok
  /\ slots[last.slot].metadata = 2
  /\ arenas[2].count = 2

\* C23 (as claimed): once an arena has been replaced its first_free never
\* changes again and its count only decreases.
C23_RetiredCountOnlyDecreases ==
  [][ kind # "Bump" =>
        \A a \in Arenas :
          a # current =>
            /\ arenas'[a].first_free = arenas[a].first_free
            /\ arenas'[a].count <= arenas[a].count ]_vars

\* C23 (amended): a Paving allocates into its current arena only.  No step
\* changes the first_free of an arena that has been replaced or places a
\* new slot in it, and no allocation raises its count; the count rises
\* only by 1 at the clone of a bare shared handle into it, and falls by
\* drops.
C23_AllocatesIntoCurrentOnly ==
  [][ kind # "Bump" =>
        /\ \A a \in Arenas :
             a # current =>
               /\ arenas'[a].first_free = arenas[a].first_free
               /\ \A s \in 1 .. Len(slots') :
                    (~slots'[s].heap /\ slots'[s].metadata = a)
                      => (s \in Slots /\ slots'[s].data = slots[s].data)
               /\ arenas'[a].count > arenas[a].count =>
                    /\ last'.op = "none"
                    /\ arenas'[a].count = arenas[a].count + 1
                    /\ \E s \in Slots :
                         /\ BareShared(s) /\ slots[s].metadata = a
                         /\ slots'[s].ext = slots[s].ext + 1
        /\ (last'.op # "none" /\ last'.ok /\ ~last'.heap)
             => slots'[last'.slot].metadata = current' ]_vars

\* The first arena was replaced while it had room left for a small value
\* and is kept by a live handle; the allocation made after the replacement
\* went into the new current arena.
C23_Witness ==
  /\ kind = "Paving" /\ current = 2 /\ Len(slots) = 2
  /\ ~Freed(arenas[1]) /\ slots[1].metadata = 1 /\ slots[1].ext > 0
  /\ arenas[1].first_free + D1.size <= arenas[1].meta
  /\ slots[2].metadata = 2
  /\ arenas[1].count = 1

\* The alignment of the slot behind handle s: T's, or the entry's in the
\* wrapped layout.
SlotAlignOf(s) ==
  IF Wrapped(slots[s]) THEN EntryAlign(slots[s].ty) ELSE slots[s].ty.align

\* C24: the byte ranges of all slots ever handed out from one arena,
\* those of dropped handles included, are pairwise disjoint; each lies
\* between the block start and the Metadata address and starts at a
\* multiple of its slot type's alignment.
C24_SlotsNeverOverlap ==
  \A s \in Slots :
    ArenaBacked(s) =>
      /\ arenas[slots[s].metadata].beg <= slots[s].data
      /\ SlotEnd(s) <= arenas[slots[s].metadata].meta
      /\ slots[s].data % SlotAlignOf(s) = 0
      /\ \A q \in Slots \ {s} :
           (ArenaBacked(q) /\ slots[q].metadata = slots[s].metadata)
             => (SlotEnd(s) <= slots[q].data \/ SlotEnd(q) <= slots[s].data)

\* A one-byte value was allocated and dropped; the next one-byte value was
\* placed after it, not in its place.
C24_Witness ==
  /\ kind = "Bump" /\ Len(slots) = 2
  /\ slots[1].ty = D1 /\ slots[2].ty = D1 /\ slots[1].own /\ slots[2].own
  /\ slots[1].ext = 0 /\ slots[1].dtor = 1 /\ slots[2].ext = 1
  /\ slots[1].data = arenas[1].beg
  /\ slots[2].data = arenas[1].beg + 1

\* The drop of the program's copy of the handle to slot s would run the
\* destructor of the value now: an owning handle, or the last copy of a
\* wrapped shared handle, to a value with drop glue in an arena.
RunsDestructor(s) ==
  /\ ArenaBacked(s) /\ slots[s].ty.nd /\ slots[s].ext > 0
  /\ slots[s].own \/ LiveCopies(s) = 1

\* C25: when the destructor of a value stored in an arena has run, the
\* handles it owned dropped with it, the arena's block is still not freed:
\* the claim of the handle being dropped keeps Metadata.count >= 1 until
\* decrement_and_drop is called after the destructor; no destructor ever
\* runs on a freed block.
C25_BlockOutlivesDestructor ==
  /\ status # "ub"
  /\ status = "running" =>
       \A s \in Slots :
         RunsDestructor(s) =>
           /\ ~DestructorDone(s).ub
           /\ DestructorDone(s).arenas[slots[s].metadata].count >= 1
           /\ DestructorDone(s).arenas[slots[s].metadata].deallocs = 0

\* An owning handle to a node that holds the only handle to another value
\* of the same arena, the Bump dropped: the node's destructor takes count
\* from 2 to 1, the block stays until the handle's own decrement.
C25_Witness ==
  /\ kind = "Bump" /\ current = 0 /\ Len(slots) = 2
  /\ slots[2].own /\ slots[2].ext = 1 /\ slots[2].val.nb = <<1>>
  /\ slots[1].ext = 0 /\ slots[1].metadata = slots[2].metadata
  /\ arenas[1].count = 2
  /\ RunsDestructor(2)
  /\ DestructorDone(2).arenas[1].count = 1
  /\ ~Freed(DestructorDone(2).arenas[1])

\* The (size, alignment) pairs of the slot types the program allocates.
SlotShapes ==
  {<<ty.size, ty.align>> : ty \in Types}
    \cup {<<EntrySize(ty), EntryAlign(ty)>> : ty \in {t \in Types : t.nd}}

\* C26: an arena that rejects a slot type of some size and alignment
\* rejects it after every later step as well, drops of handles included;
\* in particular the arena still rejects the slot type of a call that has
\* just failed.
C26_RejectionIsPermanent ==
  [][ /\ \A a \in Arenas : \A sh \in SlotShapes :
           ~CanFit(arenas[a], sh[1], sh[2]).some
             => ~CanFit(arenas'[a], sh[1], sh[2]).some
      /\ (kind = "Bump" /\ last'.op # "none" /\ ~last'.ok)
           => ~CanFit(arenas'[current],
                      IF IsRc(last'.op) /\ last'.ty.nd
                        THEN EntrySize(last'.ty) ELSE last'.ty.size,
                      IF IsRc(last'.op) /\ last'.ty.nd
                        THEN EntryAlign(last'.ty) ELSE last'.ty.align).some
    ]_vars

\* A full Bump whose only handle has been dropped turns away a further
\* value: the drop gave no room back.
C26_Witness ==
  /\ kind = "Bump" /\ current = 1 /\ Len(slots) = 1
  /\ slots[1].ext = 0 /\ arenas[1].count = 1
  /\ arenas[1].first_free = arenas[1].meta
  /\ last.op = "try_alloc" /\ ~last.ok /\ last.ty = D1

\* A step in which MixedPaving::alloc(_rc) returned a heap-backed handle.
HeapReturned == last'.op \in {"alloc", "alloc_rc"} /\ last'.heap

\* A step that clones (d = 1) or drops (d = -1) a copy of the heap-backed
\* handle s held by the program.
HeapHandleStep(s, d) ==
  /\ last'.op = "none" /\ s \in Slots /\ slots[s].heap
  /\ slots'[s].ext = slots[s].ext + d

\* The arenas holding a value reachable through the handles the value
\* behind heap-backed handle s owns.
ArenasBehind(s) ==
  {slots[q].metadata :
     q \in {r \in ReachFrom(StoredIn(s), MaxSlots) : ArenaBacked(r)}}

C27_DropReachesArena ==
  [][ \A s \in Slots :
        HeapHandleStep(s, -1)
          => \A a \in Arenas : arenas'[a].count = arenas[a].count ]_vars

\* The last handle to a heap-backed Node that owns the only handle to a
\* wrapped D1 in the current arena is about to be dropped.
C27_DropWitness ==
  /\ kind = "MixedPaving" /\ capacity = 15 /\ current = 1
  /\ Len(slots) = 2 /\ ArenaBacked(1) /\ WrappedSlot(1)
  /\ slots[2].heap /\ slots[2].ext = 1 /\ slots[2].strong = 1
  /\ StoredIn(2) = {1} /\ slots[1].ext = 0
  /\ ArenasBehind(2) = {1} /\ arenas[1].count = 2

\* Arena a has a claim besides the structure's: a live handle into it, or
\* a wrapped entry in it whose private count is positive.
HasClaim(a) ==
  \E s \in Slots :
    /\ ArenaBacked(s) /\ slots[s].metadata = a
    /\ \/ LiveCopies(s) > 0
       \/ /\ WrappedSlot(s) /\ ~Freed(arenas[a])
          /\ ReadCount(arenas[a].mem, slots[s].data) > 0

\* C28: the blocks not yet freed are exactly the current arena of the live
\* structure and the arenas with at least one claim, and no block is freed
\* twice; so when the structure and every handle have been dropped, every
\* block ever allocated has been freed.
C28_NoLeak ==
  /\ status # "ub"
  /\ \A a \in Arenas :
       /\ ~Freed(arenas[a]) <=> (a = current \/ HasClaim(a))
       /\ arenas[a].deallocs <= 1
  /\ (current = 0 /\ Roots = {}) => \A a \in Arenas : Freed(arenas[a])

\* A Paving that went through two arenas, each with a handle in it: the
\* Paving and both handles are gone and both blocks are freed.
C28_Witness ==
  /\ kind = "Paving" /\ current = 0 /\ Roots = {}
  /\ Len(arenas) = 2 /\ Len(slots) = 2
  /\ slots[1].metadata = 1 /\ slots[2].metadata = 2
  /\ \A a \in Arenas : Freed(arenas[a]) /\ arenas[a].deallocs = 1

====
